---- MODULE Spec2Model ----
(***************************************************************************)
(* A model of go-owl: the driver provisioning of `owl setup`               *)
(* (archive extraction, version probes, registry queries, install) and the *)
(* WebDriver session clients of the Firefox and WebKit browser variants.   *)
(*                                                                         *)
(* Strings whose characters the code inspects (paths, archive entry names, *)
(* version probe output) are tuples of one-character strings.              *)
(***************************************************************************)
EXTENDS Naturals, Integers, Sequences, FiniteSets, TLC

VARIABLES
    \* ---- archive extraction (extractZip / extractTarGz) ----
    exFormat,      \* "zip" or "tar.gz"
    exEntries,     \* the archive: a sequence of [name, typ]
    exDest,        \* destDir, as returned by os.MkdirTemp
    exFault,       \* the I/O fault the environment injects: [at, op]
    exResult,      \* [done, err, written, processed]
    \* ---- browsers (Firefox and WebKit over WebDriver) ----
    kind,          \* the variant of each Browser instance
    cmd,           \* f.cmd / w.cmd: [set, pid], pid 0 while cmd.Process is nil
    sessionID,     \* f.sessionID / w.sessionID
    procs,         \* the driver processes that were started and not killed
    listener,      \* the process bound to port 4444, 0 when none
    nextPid,       \* the next process id
    seAnswered,    \* per instance: the id the driver answered to the latest Launch that returned nil
    seCreated,     \* per instance: whether a Launch has returned nil
    seLast,        \* the latest call: [op, inst, url, err, reqs, answer, status, ...]
    gbLast,        \* the latest GetBrowser call: what was configured, what came back
    \* ---- owl setup: the machine it runs on ----
    goos,          \* runtime.GOOS
    goarch,        \* runtime.GOARCH
    chromeVersion, \* the installed Chrome's version, <<>> when Chrome is not installed
    firefoxInstalled, \* whether the Firefox browser is installed
    searchPath,    \* $PATH: a sequence of directories
    files,         \* the driver executables: [dir, name] -> [exists, ver, exec, whole]
    \* ---- owl setup: the process ----
    args,          \* os.Args[1:]
    pc,            \* where Run stands: start, chrome, firefox, webkit, report, exited
    run,           \* the number of this run of the command
    attempts,      \* the install steps called by setup, in order
    setupErrors,   \* setup's setupErrors
    results,       \* per family, what its install step did in this run
    prevOK,        \* the families whose install step returned nil in the previous run
    setupReturn,   \* what setup returned: -1 not yet, 0 nil, n an error counting n issues
    exitCode,      \* the process's exit code, -1 while it runs
    inLast,        \* the latest install called by itself: [family, fault, before, r,
                   \* scratch, left]
    \* ---- owl setup: installs running at the same time ----
    installs       \* [run, fs, final]: each run's position, the scratch root, the writers
                   \* of each family's install path

exVars == <<exFormat, exEntries, exDest, exFault, exResult>>

seVars == <<kind, cmd, sessionID, procs, listener, nextPid, seAnswered, seCreated, seLast,
            gbLast>>

envVars == <<goos, goarch, chromeVersion, firefoxInstalled, searchPath>>

inVars == <<envVars, files, args, pc, run, attempts, setupErrors, results, prevOK,
            setupReturn, exitCode, inLast>>

vars == <<exVars, seVars, inVars, installs>>

\* ------------------------------------------------------------------------
\* Bounds
\* ------------------------------------------------------------------------
MaxEntries == 2

MaxProcs == 2

MaxRuns == 2

\* the processes that run an install at the same time
Runs == {"run1", "run2"}

\* no install has begun
NoInstalls ==
    [run |-> [r \in Runs |-> [pc |-> "start", family |-> "none", temp |-> <<>>]],
     fs |-> {},
     final |-> [f \in {"chrome", "firefox"} |-> <<>>]]

\* ------------------------------------------------------------------------
\* strings, path/filepath
\* ------------------------------------------------------------------------
Sep == "/"

HasPrefix(s, prefix) ==
    /\ Len(prefix) <= Len(s)
    /\ SubSeq(s, 1, Len(prefix)) = prefix

HasSuffix(s, suffix) ==
    /\ Len(suffix) <= Len(s)
    /\ SubSeq(s, Len(s) - Len(suffix) + 1, Len(s)) = suffix

\* the elements of a path between separators, empty elements dropped
RECURSIVE pathElems(_, _, _)
pathElems(s, cur, acc) ==
    IF s = <<>>
    THEN IF cur = <<>> THEN acc ELSE Append(acc, cur)
    ELSE IF Head(s) = Sep
         THEN pathElems(Tail(s), <<>>, IF cur = <<>> THEN acc ELSE Append(acc, cur))
         ELSE pathElems(Tail(s), Append(cur, Head(s)), acc)

RECURSIVE joinElems(_)
joinElems(elems) ==
    IF elems = <<>> THEN <<>>
    ELSE IF Len(elems) = 1 THEN Head(elems)
    ELSE Head(elems) \o <<Sep>> \o joinElems(Tail(elems))

\* Clean's lexical processing of "." and ".." elements
RECURSIVE cleanElems(_, _, _)
cleanElems(elems, rooted, out) ==
    IF elems = <<>> THEN out
    ELSE LET e == Head(elems) IN
         IF e = <<".">> THEN cleanElems(Tail(elems), rooted, out)
         ELSE IF e = <<".", ".">>
              THEN IF out # <<>> /\ out[Len(out)] # <<".", ".">>
                   THEN cleanElems(Tail(elems), rooted, SubSeq(out, 1, Len(out) - 1))
                   ELSE IF rooted
                        THEN cleanElems(Tail(elems), rooted, out)
                        ELSE cleanElems(Tail(elems), rooted, Append(out, e))
              ELSE cleanElems(Tail(elems), rooted, Append(out, e))

filepathClean(path) ==
    IF path = <<>> THEN <<".">>
    ELSE LET rooted == Head(path) = Sep
             out == cleanElems(pathElems(path, <<>>, <<>>), rooted, <<>>)
         IN IF rooted THEN <<Sep>> \o joinElems(out)
            ELSE IF out = <<>> THEN <<".">> ELSE joinElems(out)

filepathJoin(a, b) ==
    IF a = <<>>
    THEN IF b = <<>> THEN <<>> ELSE filepathClean(b)
    ELSE filepathClean(a \o <<Sep>> \o b)

RECURSIVE lastSep(_, _)
lastSep(s, i) == IF i = 0 THEN 0 ELSE IF s[i] = Sep THEN i ELSE lastSep(s, i - 1)

filepathDir(path) == filepathClean(SubSeq(path, 1, lastSep(path, Len(path))))

\* os.MkdirTemp(dir, pattern): dir, a separator unless dir ends with one, the name
mkdirTempName(dir, name) ==
    IF dir # <<>> /\ dir[Len(dir)] = Sep THEN dir \o name ELSE dir \o <<Sep>> \o name

\* ------------------------------------------------------------------------
\* strings, regexp: what the version probes parse
\* ------------------------------------------------------------------------
Digits == <<"0", "1", "2", "3", "4", "5", "6", "7", "8", "9">>

isDigit(c) == \E d \in 1..10 : Digits[d] = c

isSpace(c) == c \in {" ", "\n", "\t"}

RECURSIVE itoa(_)
itoa(n) == IF n < 10 THEN <<Digits[n + 1]>> ELSE itoa(n \div 10) \o <<Digits[(n % 10) + 1]>>

\* a version as the browser or driver prints it: 120.0.6099.109
RECURSIVE versionString(_)
versionString(v) ==
    IF v = <<>> THEN <<>>
    ELSE IF Len(v) = 1 THEN itoa(v[1])
    ELSE itoa(v[1]) \o <<".">> \o versionString(Tail(v))

RECURSIVE trimLeft(_)
trimLeft(s) == IF s # <<>> /\ isSpace(Head(s)) THEN trimLeft(Tail(s)) ELSE s

RECURSIVE trimRight(_)
trimRight(s) ==
    IF s # <<>> /\ isSpace(s[Len(s)]) THEN trimRight(SubSeq(s, 1, Len(s) - 1)) ELSE s

TrimSpace(s) == trimRight(trimLeft(s))

\* the index after the run of digits that starts at i (i when there is none)
RECURSIVE digitsEnd(_, _)
digitsEnd(s, i) == IF i <= Len(s) /\ isDigit(s[i]) THEN digitsEnd(s, i + 1) ELSE i

\* \d+(\.\d+){parts-1} matched at i: the index after the match, 0 without one
RECURSIVE matchVersionAt(_, _, _)
matchVersionAt(s, i, parts) ==
    LET j == digitsEnd(s, i) IN
    IF j = i THEN 0
    ELSE IF parts = 1 THEN j
    ELSE IF j <= Len(s) /\ s[j] = "." THEN matchVersionAt(s, j + 1, parts - 1)
    ELSE 0

\* regexp FindString of \d+(\.\d+){parts-1}: the leftmost match, "" without one
findVersion(s, parts) ==
    LET starts == { i \in 1..Len(s) : matchVersionAt(s, i, parts) # 0 } IN
    IF starts = {} THEN <<>>
    ELSE LET i == CHOOSE x \in starts : \A y \in starts : x <= y
         IN SubSeq(s, i, matchVersionAt(s, i, parts) - 1)

\* regexp `^(\d+)\.`: the leading digits when a dot follows them, "" otherwise
majorOf(version) ==
    LET j == digitsEnd(version, 1) IN
    IF j > 1 /\ j <= Len(version) /\ version[j] = "." THEN SubSeq(version, 1, j - 1) ELSE <<>>

\* ------------------------------------------------------------------------
\* extractZip / extractTarGz
\* ------------------------------------------------------------------------

\* the ZipSlip / Tar Slip check
slipCheckNoSeparator(path, destDir) == HasPrefix(path, filepathClean(destDir))

slipCheck(path, destDir) == HasPrefix(path, filepathClean(destDir) \o <<Sep>>)

NotExtracted == [done |-> FALSE, err |-> "nil", written |-> {}, processed |-> 0]

ExtractIdle ==
    /\ exFormat = "zip"
    /\ exEntries = <<>>
    /\ exDest = <<>>
    /\ exFault = [at |-> 0, op |-> "none"]
    /\ exResult = NotExtracted

ExResult(err, written, processed) ==
    [done |-> TRUE, err |-> err, written |-> written, processed |-> processed]

\* written: the paths created or written so far; processed: the entries whose
\* turn of the loop has begun
RECURSIVE extractZip(_, _, _, _, _)
extractZip(entries, destDir, fault, i, written) ==
    IF i > Len(entries) THEN ExResult("nil", written, Len(entries))
    ELSE LET file == entries[i]
             path == filepathJoin(destDir, file.name)
             fails(op) == fault.at = i /\ fault.op = op
         IN IF ~slipCheck(path, destDir)
            THEN ExResult("illegal file path", written, i)
            ELSE IF file.typ = "dir"
            THEN extractZip(entries, destDir, fault, i + 1,
                            IF fails("mkdir") THEN written ELSE written \cup {path})
            ELSE IF fails("mkdir") THEN ExResult("mkdir", written, i)
            ELSE IF fails("open")
            THEN ExResult("open", written \cup {filepathDir(path)}, i)
            ELSE IF fails("copy")
            THEN ExResult("copy", written \cup {filepathDir(path), path}, i)
            ELSE extractZip(entries, destDir, fault, i + 1,
                            written \cup {filepathDir(path), path})

RECURSIVE extractTarGz(_, _, _, _, _)
extractTarGz(entries, destDir, fault, i, written) ==
    IF i > Len(entries) THEN ExResult("nil", written, Len(entries))
    ELSE LET header == entries[i]
             path == filepathJoin(destDir, header.name)
             fails(op) == fault.at = i /\ fault.op = op
         IN IF fails("next") THEN ExResult("next", written, i - 1)
            ELSE IF ~slipCheck(path, destDir)
            THEN ExResult("illegal file path", written, i)
            ELSE IF header.typ = "dir"
            THEN IF fails("mkdir") THEN ExResult("mkdir", written, i)
                 ELSE extractTarGz(entries, destDir, fault, i + 1, written \cup {path})
            ELSE IF header.typ = "reg"
            THEN IF fails("mkdir") THEN ExResult("mkdir", written, i)
                 ELSE IF fails("open")
                 THEN ExResult("open", written \cup {filepathDir(path)}, i)
                 ELSE IF fails("copy")
                 THEN ExResult("copy", written \cup {filepathDir(path), path}, i)
                 ELSE extractTarGz(entries, destDir, fault, i + 1,
                                   written \cup {filepathDir(path), path})
            ELSE extractTarGz(entries, destDir, fault, i + 1, written)

\* ------------------------------------------------------------------------
\* Browser instances: Firefox (chrome.go) and WebKit (webkit.go)
\* ------------------------------------------------------------------------
Browsers == {"b1", "b2"}

Urls == {"https://example.com", "about:blank"}

NoCmd == [set |-> FALSE, pid |-> 0]

NoAnswer == "<none>"

\* what a driver may answer to POST /session, by the shapes the code tells
\* apart: whether the body decodes as a JSON object, what "value" is, what
\* "sessionId" is
SessionIds == {"abc123", "s2", ""}

SessionBodies ==
    {[decodes |-> FALSE, value |-> "absent", idType |-> "absent", id |-> ""]}
        \cup {[decodes |-> TRUE, value |-> v, idType |-> "absent", id |-> ""] :
                 v \in {"absent", "string"}}
        \cup {[decodes |-> TRUE, value |-> "object", idType |-> t, id |-> ""] :
                 t \in {"absent", "number"}}
        \cup {[decodes |-> TRUE, value |-> "object", idType |-> "string", id |-> s] :
                 s \in SessionIds}

\* the outcome of an http.Post: no response (transport error) or a response
NoResponse == [sent |-> TRUE, ok |-> FALSE, status |-> 0]

NavStatuses == {200, 404, 500}

Request(method, url, body) == [method |-> method, url |-> url, body |-> body]

\* the response body of a call that received none
NoBody == [decodes |-> FALSE, value |-> "none", idType |-> "none", id |-> ""]

\* kill: the process a Close called Process.Kill on, 0 when it called none;
\* live: that process was running; body: the response to the POST /session of
\* a Launch
NoCall == [op |-> "none", inst |-> "b1", url |-> "", err |-> "nil", reqs |-> <<>>,
           answer |-> NoAnswer, status |-> 0, kill |-> 0, live |-> FALSE, body |-> NoBody]

Call(op, i, url, err, reqs, answer, status) ==
    [op |-> op, inst |-> i, url |-> url, err |-> err, reqs |-> reqs,
     answer |-> answer, status |-> status, kill |-> 0, live |-> FALSE,
     body |-> NoBody]

\* GetBrowser was not called. browserType: what LoadBrowserType returned;
\* fatal: LoadConfig ended the process with log.Fatal; launched: the variant
\* whose Launch was called; browser: the variant returned, "nil" for a nil
\* Browser; inst: the instance returned
NoGetBrowser ==
    [called |-> FALSE, browserType |-> "", fatal |-> FALSE, launched |-> "none",
     browser |-> "nil", err |-> "nil", panicked |-> FALSE, inst |-> "b1"]

SessionIdle ==
    /\ gbLast = NoGetBrowser
    /\ kind = [i \in Browsers |-> "firefox"]
    /\ cmd = [i \in Browsers |-> NoCmd]
    /\ sessionID = [i \in Browsers |-> ""]
    /\ procs = {}
    /\ listener = 0
    /\ nextPid = 1
    /\ seAnswered = [i \in Browsers |-> NoAnswer]
    /\ seCreated = [i \in Browsers |-> FALSE]
    /\ seLast = NoCall

browserName(k) == IF k = "firefox" THEN "firefox" ELSE "safari"

sessionURL == <<"http://localhost:4444/session">>

capabilities(k) == [capabilities |-> [alwaysMatch |-> [browserName |-> browserName(k)]]]

\* createSession's reading of the response: [err, id]
createSessionFirefox(body) ==
    IF ~body.decodes THEN [err |-> "failed to decode session response", id |-> ""]
    ELSE IF body.value # "object" THEN [err |-> "panic", id |-> ""]
    ELSE IF body.idType # "string"
         THEN [err |-> "invalid session response format", id |-> ""]
         ELSE [err |-> "nil", id |-> body.id]

createSessionWebKit(body) ==
    IF ~body.decodes THEN [err |-> "failed to decode session response", id |-> ""]
    ELSE IF body.value # "object"
         THEN [err |-> "invalid session response format", id |-> ""]
    ELSE IF body.idType # "string"
         THEN [err |-> "invalid session response format: sessionId not found", id |-> ""]
         ELSE [err |-> "nil", id |-> body.id]

createSession(k, body) ==
    IF k = "firefox" THEN createSessionFirefox(body) ELSE createSessionWebKit(body)

\* Launch, up to and including cmd.Start(): the driver process is spawned
StartDriver(i, url) ==
    /\ nextPid <= MaxProcs
    /\ cmd' = [cmd EXCEPT ![i] = [set |-> TRUE, pid |-> nextPid]]
    /\ procs' = procs \cup {nextPid}
    /\ listener' = IF listener = 0 THEN nextPid ELSE listener
    /\ nextPid' = nextPid + 1

\* Launch fails before the driver runs: `safaridriver --enable` (WebKit only)
LaunchEnableFails(i) ==
    /\ kind[i] = "webkit"
    /\ seLast' = Call("Launch", i, "", "failed to enable Safari WebDriver", <<>>, NoAnswer, 0)
    /\ UNCHANGED <<kind, cmd, sessionID, procs, listener, nextPid, seAnswered, seCreated>>

\* a Launch that posts to /session before it looks at cmd.Start()'s error
LaunchRequestBeforeStart(i) ==
    /\ cmd' = [cmd EXCEPT ![i] = [set |-> TRUE, pid |-> 0]]
    /\ seLast' = Call("Launch", i, "", "failed to start driver",
                      <<Request("POST", sessionURL, capabilities(kind[i]))>>, NoAnswer, 0)
    /\ UNCHANGED <<kind, sessionID, procs, listener, nextPid, seAnswered, seCreated>>

\* Launch fails at cmd.Start()
LaunchStartFails(i) ==
    /\ cmd' = [cmd EXCEPT ![i] = [set |-> TRUE, pid |-> 0]]
    /\ seLast' = Call("Launch", i, "", "failed to start driver", <<>>, NoAnswer, 0)
    /\ UNCHANGED <<kind, sessionID, procs, listener, nextPid, seAnswered, seCreated>>

\* Launch fails at createSession: no response to POST /session
LaunchNoResponse(i) ==
    /\ StartDriver(i, "")
    /\ seLast' = Call("Launch", i, "", "failed to create session",
                      <<Request("POST", sessionURL, capabilities(kind[i]))>>, NoAnswer, 0)
    /\ UNCHANGED <<kind, sessionID, seAnswered, seCreated>>

\* Launch with a response to POST /session from the driver bound to the port
LaunchResponse(i, body) ==
    /\ StartDriver(i, "")
    /\ LET r == createSession(kind[i], body)
           reqs == <<Request("POST", sessionURL, capabilities(kind[i]))>>
           answer == IF body.decodes /\ body.value = "object" /\ body.idType = "string"
                     THEN body.id ELSE NoAnswer
       IN IF r.err = "nil"
          THEN /\ sessionID' = [sessionID EXCEPT ![i] = r.id]
               /\ seAnswered' = [seAnswered EXCEPT ![i] = answer]
               /\ seCreated' = [seCreated EXCEPT ![i] = TRUE]
               /\ seLast' = [Call("Launch", i, "", "nil", reqs, answer, 0)
                                EXCEPT !.body = body]
          ELSE /\ seLast' = [Call("Launch", i, "", r.err, reqs, answer, 0)
                                EXCEPT !.body = body]
               /\ UNCHANGED <<sessionID, seAnswered, seCreated>>
    /\ UNCHANGED kind

Launch(i) ==
    \/ LaunchEnableFails(i)
    \/ LaunchStartFails(i)
    \/ LaunchNoResponse(i)
    \/ \E body \in SessionBodies : LaunchResponse(i, body)

\* OpenURL's guard
noActiveSessionUnchecked(id) == FALSE

noActiveSession(id) == id = ""

requestURL(id) == <<"http://localhost:4444/session/", id, "/url">>

\* an OpenURL that gives its session up when the navigation fails
OpenURLDroppingSession(i, url, resp) ==
    /\ IF noActiveSession(sessionID[i])
       THEN seLast' = Call("OpenURL", i, url, "no active session", <<>>, NoAnswer, 0)
       ELSE LET reqs == <<Request("POST", requestURL(sessionID[i]), [url |-> url])>> IN
            IF ~resp.ok
            THEN seLast' = Call("OpenURL", i, url, "failed to open URL", reqs, NoAnswer, 0)
            ELSE IF resp.status # 200
            THEN seLast' = Call("OpenURL", i, url, "failed to navigate to URL", reqs,
                                NoAnswer, resp.status)
            ELSE seLast' = Call("OpenURL", i, url, "nil", reqs, NoAnswer, resp.status)
    /\ sessionID' = IF ~noActiveSession(sessionID[i]) /\ (~resp.ok \/ resp.status # 200)
                    THEN [sessionID EXCEPT ![i] = ""]
                    ELSE sessionID
    /\ UNCHANGED <<kind, cmd, procs, listener, nextPid, seAnswered, seCreated>>

\* resp: the outcome of the http.Post, from the environment
OpenURL(i, url, resp) ==
    /\ IF noActiveSession(sessionID[i])
       THEN seLast' = Call("OpenURL", i, url, "no active session", <<>>, NoAnswer, 0)
       ELSE LET reqs == <<Request("POST", requestURL(sessionID[i]), [url |-> url])>> IN
            IF ~resp.ok
            THEN seLast' = Call("OpenURL", i, url, "failed to open URL", reqs, NoAnswer, 0)
            ELSE IF resp.status # 200
            THEN seLast' = Call("OpenURL", i, url, "failed to navigate to URL", reqs,
                                NoAnswer, resp.status)
            ELSE seLast' = Call("OpenURL", i, url, "nil", reqs, NoAnswer, resp.status)
    /\ UNCHANGED <<kind, cmd, sessionID, procs, listener, nextPid, seAnswered, seCreated>>

NavResponses == {NoResponse} \cup {[sent |-> TRUE, ok |-> TRUE, status |-> st] : st \in NavStatuses}

\* what Process.Kill returns: nil for a running process; for one that was
\* killed before, nil or an error, by the platform
KillErrors(pid) == IF pid \in procs THEN {"nil"} ELSE {"nil", "failed to close"}

\* Close: Process.Kill when cmd and cmd.Process are set; cmd stays as it is
Close(i) ==
    /\ IF cmd[i].set /\ cmd[i].pid # 0
       THEN /\ procs' = procs \ {cmd[i].pid}
            /\ listener' = IF listener = cmd[i].pid THEN 0 ELSE listener
            /\ \E err \in KillErrors(cmd[i].pid) :
                  seLast' = [Call("Close", i, "", err, <<>>, NoAnswer, 0)
                                EXCEPT !.kill = cmd[i].pid,
                                       !.live = cmd[i].pid \in procs]
       ELSE /\ UNCHANGED <<procs, listener>>
            /\ seLast' = Call("Close", i, "", "nil", <<>>, NoAnswer, 0)
    /\ UNCHANGED <<kind, cmd, sessionID, nextPid, seAnswered, seCreated>>

\* ------------------------------------------------------------------------
\* GetBrowser (browser.go) and the configuration it reads (config.go)
\* ------------------------------------------------------------------------

\* what owl.config may hold in browser.type; "" when the field is absent
BrowserTypes == {"chrome", "firefox", "webkit", "", "Firefox", "edge"}

\* the switch on browserType: the variant constructed, "none" in the default case
selectBrowserDefaultFirefox(browserType) ==
    IF browserType \in {"chrome", "webkit"} THEN browserType ELSE "firefox"

selectBrowser(browserType) ==
    IF browserType \in {"chrome", "firefox", "webkit"} THEN browserType ELSE "none"

GetBrowserCall(browserType, launched, browser, err, panicked, i) ==
    [called |-> TRUE, browserType |-> browserType, fatal |-> FALSE, launched |-> launched,
     browser |-> browser, err |-> err, panicked |-> panicked, inst |-> i]

\* a zero-value instance: &Firefox{} / &WebKit{}
Fresh(i) == ~cmd[i].set /\ sessionID[i] = "" /\ ~seCreated[i]

\* LoadConfig cannot read or parse owl.config: log.Fatal
GetBrowserConfigFatal ==
    /\ gbLast' = [NoGetBrowser EXCEPT !.called = TRUE, !.fatal = TRUE]
    /\ UNCHANGED <<kind, cmd, sessionID, procs, listener, nextPid, seAnswered, seCreated,
                   seLast>>

\* the default case: an unsupported browser type
GetBrowserUnsupported(browserType) ==
    /\ selectBrowser(browserType) = "none"
    /\ gbLast' = GetBrowserCall(browserType, "none", "nil", "Unsupported browser type",
                                FALSE, "b1")
    /\ UNCHANGED <<kind, cmd, sessionID, procs, listener, nextPid, seAnswered, seCreated,
                   seLast>>

\* case "chrome": Chrome.Launch is rod.New().MustConnect(), which connects or
\* panics
GetBrowserChrome(browserType) ==
    /\ selectBrowser(browserType) = "chrome"
    /\ \E connected \in BOOLEAN :
          gbLast' = IF connected
                    THEN GetBrowserCall(browserType, "chrome", "chrome", "nil", FALSE, "b1")
                    ELSE GetBrowserCall(browserType, "chrome", "nil", "nil", TRUE, "b1")
    /\ UNCHANGED <<kind, cmd, sessionID, procs, listener, nextPid, seAnswered, seCreated,
                   seLast>>

\* case "firefox", "webkit": a new instance of the variant, and its Launch
GetBrowserDriver(browserType) ==
    /\ selectBrowser(browserType) \in {"firefox", "webkit"}
    /\ \E i \in Browsers :
          /\ Fresh(i)
          /\ kind[i] = selectBrowser(browserType)
          /\ Launch(i)
          /\ gbLast' = IF seLast'.err = "nil"
                       THEN GetBrowserCall(browserType, kind[i], kind[i], "nil", FALSE, i)
                       ELSE IF seLast'.err = "panic"
                       THEN GetBrowserCall(browserType, kind[i], "nil", "nil", TRUE, i)
                       ELSE GetBrowserCall(browserType, kind[i], "nil", seLast'.err, FALSE, i)

\* ------------------------------------------------------------------------
\* owl setup: files, search path, registries
\* ------------------------------------------------------------------------
ChromeDriverName == <<"c", "h", "r", "o", "m", "e", "d", "r", "i", "v", "e", "r">>

GeckoDriverName == <<"g", "e", "c", "k", "o", "d", "r", "i", "v", "e", "r">>

ExeSuffix == <<".", "e", "x", "e">>

Dirs == {"/usr/local/bin", "/usr/bin", "$HOME/bin", "%USERPROFILE%/bin", "."}

ExecNames == {ChromeDriverName, ChromeDriverName \o ExeSuffix,
              GeckoDriverName, GeckoDriverName \o ExeSuffix}

InstallPaths == [dir : Dirs, name : ExecNames]

NoPath == [dir |-> "", name |-> <<>>]

NoFile == [exists |-> FALSE, ver |-> <<>>, exec |-> FALSE, whole |-> FALSE]

DriverFile(ver) == [exists |-> TRUE, ver |-> ver, exec |-> TRUE, whole |-> TRUE]

\* exec.LookPath: the first directory of $PATH holding an executable of that name
lookPath(name) ==
    LET found(d) == files[[dir |-> d, name |-> name]].exists
                        /\ (goos = "windows" \/ files[[dir |-> d, name |-> name]].exec)
        hits == { k \in 1..Len(searchPath) : found(searchPath[k]) }
    IN IF hits = {} THEN NoPath
       ELSE [dir |-> searchPath[CHOOSE k \in hits : \A j \in hits : k <= j], name |-> name]

\* the scratch directory os.MkdirTemp("", pattern) gives
TempRoot == <<"/", "t">>

\* the registries' answers
ChromeLatestRelease == <<"1", "2", "1", ".", "0", ".", "1", ".", "2", "\n">>

chromeLatestReleaseFor(major) == major \o <<".", "0", ".", "1", ".", "2", "\n">>

GeckoTagName == <<"v", "0", ".", "3", "3", ".", "0">>

GET(url) == [method |-> "GET", url |-> url]

\* the archive a download delivers for a driver named `name`: the driver at
\* its top, unless the environment serves one with the driver in a directory
\* or one with an entry that leaves the destination
archiveEntries(fault, name) ==
    IF fault \notin {"archive nested", "archive slip"} THEN <<[name |-> name, typ |-> "reg"]>>
    ELSE IF fault = "archive nested"
    THEN <<[name |-> <<"b", "i", "n", "/">>, typ |-> "dir"],
           [name |-> <<"b", "i", "n", "/">> \o name, typ |-> "reg"]>>
    ELSE <<[name |-> <<".", ".", "/", "e", "v", "i", "l">>, typ |-> "reg"],
           [name |-> name, typ |-> "reg"]>>

NoFault == [at |-> 0, op |-> "none"]

\* errors: the chain of messages, outermost first; nil is the empty chain
Nil == <<>>

Wrap(msg, err) == <<msg>> \o err

\* ------------------------------------------------------------------------
\* owl setup: the Chrome driver
\* ------------------------------------------------------------------------

\* what `chrome --version` prints: nothing when no Chrome is found
chromeVersionOutput ==
    IF chromeVersion = <<>> THEN <<>>
    ELSE <<"C", "h", "r", "o", "m", "e", " ">> \o versionString(chromeVersion) \o <<" ", "\n">>

\* [err, version]
getInstalledChromeVersion(output) ==
    LET version == TrimSpace(output) IN
    IF version = <<>> THEN [err |-> <<"Chrome not found">>, version |-> <<>>]
    ELSE IF findVersion(version, 4) # <<>>
    THEN [err |-> Nil, version |-> findVersion(version, 4)]
    ELSE IF findVersion(version, 3) # <<>>
    THEN [err |-> Nil, version |-> findVersion(version, 3)]
    ELSE [err |-> <<"failed to parse Chrome version from output">>, version |-> <<>>]

chromeExecName == IF goos = "windows" THEN ChromeDriverName \o ExeSuffix ELSE ChromeDriverName

\* [err, path]; fault: the environment's first failing operation
getChromeDriverPath(fault) ==
    LET execName == chromeExecName
        inPath == lookPath(execName)
        std == { d \in {"/usr/local/bin", "/usr/bin"} :
                    files[[dir |-> d, name |-> execName]].exists }
        binPath == IF goos = "windows" THEN "%USERPROFILE%/bin" ELSE "/usr/local/bin"
    IN IF inPath # NoPath THEN [err |-> Nil, path |-> inPath]
       ELSE IF goos # "windows" /\ std # {}
       THEN [err |-> Nil,
             path |-> [dir |-> IF "/usr/local/bin" \in std THEN "/usr/local/bin" ELSE "/usr/bin",
                       name |-> execName]]
       ELSE IF fault = "mkdir bin"
       THEN [err |-> <<"failed to create bin directory">>, path |-> NoPath]
       ELSE [err |-> Nil, path |-> [dir |-> binPath, name |-> execName]]

\* http.Get(url) of the archive: [err, status], status 0 without a response
httpGet(fault) ==
    IF fault = "download transport" THEN [err |-> <<"transport">>, status |-> 0]
    ELSE IF fault = "download status" THEN [err |-> Nil, status |-> 404]
    ELSE IF fault = "download no content" THEN [err |-> Nil, status |-> 204]
    ELSE [err |-> Nil, status |-> 200]

\* downloadFile with its failures dropped
downloadFileIgnoringErrors(fault) == [err |-> Nil, created |-> TRUE]

\* a downloadFile that opens outputPath before it looks at the response
downloadFileCreateFirst(fault) ==
    IF httpGet(fault).err # Nil THEN [err |-> httpGet(fault).err, created |-> TRUE]
    ELSE IF httpGet(fault).status # 200
    THEN [err |-> <<"download failed with status">>, created |-> TRUE]
    ELSE IF fault = "download create" THEN [err |-> <<"create">>, created |-> FALSE]
    ELSE IF fault = "download write" THEN [err |-> <<"write">>, created |-> TRUE]
    ELSE [err |-> Nil, created |-> TRUE]

\* downloadFile: [err, created], created: outputPath was created or truncated
downloadFile(fault) ==
    LET resp == httpGet(fault) IN
    IF resp.err # Nil THEN [err |-> resp.err, created |-> FALSE]
    ELSE IF resp.status # 200
    THEN [err |-> <<"download failed with status">>, created |-> FALSE]
    ELSE IF fault = "download create" THEN [err |-> <<"create">>, created |-> FALSE]
    ELSE IF fault = "download write" THEN [err |-> <<"write">>, created |-> TRUE]
    ELSE [err |-> Nil, created |-> TRUE]

\* copyFile(src, dst): [err, file], file: what is at dst afterwards
copyFile(srcExists, srcVer, old, fault) ==
    LET truncated == [exists |-> TRUE, ver |-> <<>>, exec |-> old.exists /\ old.exec,
                      whole |-> FALSE]
        copied == [truncated EXCEPT !.ver = srcVer, !.whole = TRUE]
    IN IF ~srcExists THEN [err |-> <<"open: no such file">>, file |-> old]
       ELSE IF fault = "copy create" THEN [err |-> <<"create">>, file |-> old]
       ELSE IF fault = "copy write" THEN [err |-> <<"write">>, file |-> truncated]
       ELSE IF fault = "copy sync" THEN [err |-> <<"sync">>, file |-> copied]
       ELSE [err |-> Nil, file |-> copied]

chmod(file) == [file EXCEPT !.exec = TRUE]

\* scratch: what the step's scratch directory held when the step was about
\* to return; left: what of it is there after the step returned
StepResult(err, reqs, fs, path, had) ==
    [done |-> TRUE, err |-> err, reqs |-> reqs, files |-> fs, path |-> path, had |-> had,
     enableFailed |-> FALSE, scratch |-> {}, left |-> {}]

\* a return that leaves the scratch directory behind
removeAllSkipped(path, paths) == paths

\* os.RemoveAll(path): path and everything below it are gone
removeAll(path, paths) ==
    { p \in paths : p # path /\ ~HasPrefix(p, path \o <<Sep>>) }

\* a return of r past `defer os.RemoveAll(tempDir)`, with inTemp in place
deferRemoveAll(tempDir, inTemp, r) ==
    [r EXCEPT !.scratch = inTemp, !.left = removeAll(tempDir, inTemp)]

chromePlatform ==
    IF goos = "darwin" THEN (IF goarch = "arm64" THEN "mac_arm64" ELSE "mac64")
    ELSE IF goos = "linux" THEN "linux64"
    ELSE "win32"

ChromeStorage == "https://chromedriver.storage.googleapis.com/"

\* the scoped registry query's URL
latestReleaseURLUnscoped(chromeMajorVersion) == <<ChromeStorage, "LATEST_RELEASE">>

latestReleaseURL(chromeMajorVersion) == <<ChromeStorage, "LATEST_RELEASE_", chromeMajorVersion>>

\* the registry's answer to a LATEST_RELEASE query, by its URL
chromeRegistry(url) ==
    IF Len(url) = 3 THEN chromeLatestReleaseFor(url[3]) ELSE ChromeLatestRelease

extractFault(fault) == IF fault = "extract io" THEN [at |-> 1, op |-> "copy"] ELSE NoFault

\* reqs: the requests issued so far; had: the driver was at the install path
downloadAndInstallChromeDriver(chromeMajorVersion, fault, reqs, had) ==
    LET url == latestReleaseURL(chromeMajorVersion)
        reqs1 == Append(reqs, GET(url))
        driverVersion == TrimSpace(chromeRegistry(url))
        downloadURL == <<ChromeStorage, driverVersion, "/chromedriver_", chromePlatform, ".zip">>
        reqs2 == Append(reqs1, GET(downloadURL))
        tempDir == mkdirTempName(TempRoot, ChromeDriverName \o <<"1">>)
        archivePath == filepathJoin(tempDir, ChromeDriverName \o <<".", "z", "i", "p">>)
        dl == downloadFile(fault)
        dp == getChromeDriverPath(fault)
        driverPath == dp.path
        ex == extractZip(archiveEntries(fault, chromeExecName), tempDir,
                         extractFault(fault), 1, {})
        srcDriver == filepathJoin(tempDir, chromeExecName)
        cp == copyFile(srcDriver \in ex.written, driverVersion, files[driverPath], fault)
        copied == [files EXCEPT ![driverPath] = cp.file]
        made == [files EXCEPT ![driverPath] = chmod(cp.file)]
        downloaded == {tempDir} \cup (IF dl.created THEN {archivePath} ELSE {})
        extracted == downloaded \cup ex.written
    IN IF fault = "scoped transport" THEN StepResult(<<"transport">>, reqs1, files, NoPath, had)
       ELSE IF fault = "scoped status"
       THEN StepResult(<<"failed to get ChromeDriver version: status">>, reqs1, files, NoPath, had)
       ELSE IF fault = "mktemp" THEN StepResult(<<"mkdirtemp">>, reqs1, files, NoPath, had)
       ELSE IF dl.err # Nil
       THEN deferRemoveAll(tempDir, downloaded,
                StepResult(Wrap("download failed", dl.err), reqs2, files, NoPath, had))
       ELSE IF dp.err # Nil
       THEN deferRemoveAll(tempDir, downloaded, StepResult(dp.err, reqs2, files, NoPath, had))
       ELSE IF ex.err # "nil"
       THEN deferRemoveAll(tempDir, extracted,
                StepResult(Wrap("extraction failed", <<ex.err>>), reqs2, files, driverPath, had))
       ELSE IF fault = "mkdir target"
       THEN deferRemoveAll(tempDir, extracted,
                StepResult(<<"failed to create target directory">>, reqs2, files, driverPath,
                           had))
       ELSE IF cp.err # Nil
       THEN deferRemoveAll(tempDir, extracted,
                StepResult(Wrap("failed to install driver", cp.err), reqs2, copied, driverPath,
                           had))
       ELSE IF goos # "windows" /\ fault = "chmod"
       THEN deferRemoveAll(tempDir, extracted,
                StepResult(<<"failed to make driver executable">>, reqs2, copied, driverPath,
                           had))
       ELSE deferRemoveAll(tempDir, extracted,
                StepResult(Nil, reqs2, IF goos # "windows" THEN made ELSE copied, driverPath,
                           had))

\* os.Stat(chromeDriverPath) reports that nothing is there
driverMissing(path) == ~files[path].exists

\* a driver is at the path getChromeDriverPath resolves to
chromeDriverPresent ==
    LET dp == getChromeDriverPath("none") IN files[dp.path].exists

installChromeDriver(fault) ==
    LET installed == getInstalledChromeVersion(chromeVersionOutput)
        installedVersion == installed.version
        reqs == <<GET(<<ChromeStorage, "LATEST_RELEASE">>)>>
        installedMajor == majorOf(installedVersion)
        dp == getChromeDriverPath(fault)
        chromeDriverPath == dp.path
        had == chromeDriverPresent
    IN IF installed.err # Nil
       THEN StepResult(Wrap("failed to get installed Chrome version", installed.err),
                       <<>>, files, NoPath, had)
       ELSE IF installedVersion = <<>>
       THEN StepResult(<<"Chrome is not installed. Please install Chrome manually">>,
                       <<>>, files, NoPath, had)
       ELSE IF fault = "latest transport"
       THEN StepResult(Wrap("failed to get latest Chrome driver version", <<"transport">>),
                       reqs, files, NoPath, had)
       ELSE IF fault = "latest status"
       THEN StepResult(Wrap("failed to get latest Chrome driver version",
                            <<"unexpected status code">>), reqs, files, NoPath, had)
       ELSE IF installedMajor = <<>>
       THEN StepResult(<<"failed to parse Chrome version">>, reqs, files, NoPath, had)
       ELSE IF dp.err # Nil THEN StepResult(dp.err, reqs, files, NoPath, had)
       ELSE IF driverMissing(chromeDriverPath)
       THEN downloadAndInstallChromeDriver(installedMajor, fault, reqs, had)
       ELSE StepResult(Nil, reqs, files, chromeDriverPath, had)

ChromeFaults == {"none", "latest transport", "latest status", "mkdir bin", "scoped transport",
                 "scoped status", "mktemp", "download transport", "download status",
                 "download no content",
                 "download create", "download write", "archive nested", "archive slip",
                 "extract io", "mkdir target", "copy create", "copy write", "copy sync",
                 "chmod"}

\* ------------------------------------------------------------------------
\* owl setup: the Firefox driver
\* ------------------------------------------------------------------------
geckoExecName == IF goos = "windows" THEN GeckoDriverName \o ExeSuffix ELSE GeckoDriverName

\* what `geckodriver --version` prints; the program's name is one symbol
geckoVersionOutput(file) ==
    <<"geckodriver", " ">> \o file.ver \o <<" ", "(", "2", "0", "2", "3", ")", "\n">>

\* regexp `geckodriver (\d+\.\d+\.\d+)`: the first submatch, "" without a match
geckoVersionIn(output) ==
    LET starts == { i \in 1..Len(output) :
                      /\ i + 2 <= Len(output)
                      /\ output[i] = "geckodriver"
                      /\ output[i + 1] = " "
                      /\ matchVersionAt(output, i + 2, 3) # 0 }
    IN IF starts = {} THEN <<>>
       ELSE LET i == CHOOSE x \in starts : \A y \in starts : x <= y
            IN SubSeq(output, i + 2, matchVersionAt(output, i + 2, 3) - 1)

\* [err, version]
getInstalledGeckoDriverVersion ==
    LET geckoPath == lookPath(geckoExecName) IN
    IF geckoPath = NoPath THEN [err |-> <<"geckodriver not installed">>, version |-> <<>>]
    ELSE IF ~files[geckoPath].whole
    THEN [err |-> <<"failed to get geckodriver version">>, version |-> <<>>]
    ELSE IF geckoVersionIn(geckoVersionOutput(files[geckoPath])) = <<>>
    THEN [err |-> <<"failed to parse geckodriver version">>, version |-> <<>>]
    ELSE [err |-> Nil, version |-> geckoVersionIn(geckoVersionOutput(files[geckoPath]))]

GeckoReleasesURL == <<"https://api.github.com/repos/mozilla/geckodriver/releases/latest">>

\* [err, version]: tag_name without its v
getLatestGeckoDriverVersion(fault) ==
    IF fault = "latest transport" THEN [err |-> <<"transport">>, version |-> <<>>]
    ELSE IF fault = "latest status" THEN [err |-> <<"unexpected status code">>, version |-> <<>>]
    ELSE IF HasPrefix(GeckoTagName, <<"v">>)
    THEN [err |-> Nil, version |-> Tail(GeckoTagName)]
    ELSE [err |-> Nil, version |-> GeckoTagName]

getBinDirectory(fault) ==
    IF goos = "windows" THEN "%USERPROFILE%/bin"
    ELSE IF fault \notin {"usrlocal", "usrlocal, no home"} THEN "/usr/local/bin"
    ELSE IF fault = "usrlocal" THEN "$HOME/bin"
    ELSE "."

\* archiveExt
archiveExt ==
    IF goos = "windows" THEN <<".", "z", "i", "p">> ELSE <<".", "t", "a", "r", ".", "g", "z">>

geckoArchive ==
    IF goos = "darwin" THEN (IF goarch = "arm64" THEN "-macos-aarch64.tar.gz" ELSE "-macos.tar.gz")
    ELSE IF goos = "linux"
    THEN (IF goarch = "arm64" THEN "-linux-aarch64.tar.gz" ELSE "-linux64.tar.gz")
    ELSE "-win64.zip"

downloadAndInstallGeckoDriver(version, fault, reqs, had) ==
    LET downloadURL == <<"https://github.com/mozilla/geckodriver/releases/download/v", version,
                         "/geckodriver-v", version, geckoArchive>>
        reqs1 == Append(reqs, GET(downloadURL))
        tempDir == mkdirTempName(TempRoot, GeckoDriverName \o <<"1">>)
        archivePath == filepathJoin(tempDir, GeckoDriverName \o archiveExt)
        dl == downloadFile(fault)
        entries == archiveEntries(fault, geckoExecName)
        ex == IF goos = "windows"
              THEN extractZip(entries, tempDir, extractFault(fault), 1, {})
              ELSE extractTarGz(entries, tempDir, extractFault(fault), 1, {})
        binPath == getBinDirectory(fault)
        srcPath == filepathJoin(tempDir, geckoExecName)
        dstPath == [dir |-> binPath, name |-> geckoExecName]
        cp == copyFile(srcPath \in ex.written, version, files[dstPath], fault)
        copied == [files EXCEPT ![dstPath] = cp.file]
        made == [files EXCEPT ![dstPath] = chmod(cp.file)]
        downloaded == {tempDir} \cup (IF dl.created THEN {archivePath} ELSE {})
        extracted == downloaded \cup ex.written
    IN IF fault = "mktemp" THEN StepResult(<<"mkdirtemp">>, reqs, files, NoPath, had)
       ELSE IF dl.err # Nil
       THEN deferRemoveAll(tempDir, downloaded,
                StepResult(Wrap("download failed", dl.err), reqs1, files, NoPath, had))
       ELSE IF ex.err # "nil"
       THEN deferRemoveAll(tempDir, extracted,
                StepResult(Wrap("extraction failed", <<ex.err>>), reqs1, files, NoPath, had))
       ELSE IF fault = "mkdir bin"
       THEN deferRemoveAll(tempDir, extracted,
                StepResult(<<"failed to create bin directory">>, reqs1, files, dstPath, had))
       ELSE IF cp.err # Nil
       THEN deferRemoveAll(tempDir, extracted,
                StepResult(Wrap("failed to install driver", cp.err), reqs1, copied, dstPath,
                           had))
       ELSE IF goos # "windows" /\ fault = "chmod"
       THEN deferRemoveAll(tempDir, extracted,
                StepResult(<<"failed to make driver executable">>, reqs1, copied, dstPath, had))
       ELSE deferRemoveAll(tempDir, extracted,
                StepResult(Nil, reqs1, IF goos # "windows" THEN made ELSE copied, dstPath, had))

installFirefoxDriver(fault) ==
    LET installed == getInstalledGeckoDriverVersion
        latest == getLatestGeckoDriverVersion(fault)
        reqs == <<GET(GeckoReleasesURL)>>
        had == files[[dir |-> getBinDirectory(fault), name |-> geckoExecName]].exists
        inst == downloadAndInstallGeckoDriver(latest.version, fault, reqs, had)
    IN IF installed.err # Nil /\ installed.err # <<"geckodriver not installed">>
       THEN StepResult(Wrap("failed to check installed Geckodriver", installed.err),
                       <<>>, files, NoPath, had)
       ELSE IF latest.err # Nil
       THEN StepResult(Wrap("failed to get latest Geckodriver version", latest.err),
                       reqs, files, NoPath, had)
       ELSE IF installed.version = latest.version
       THEN StepResult(Nil, reqs, files, NoPath, had)
       ELSE IF inst.err # Nil
       THEN [inst EXCEPT !.err = Wrap("failed to install Geckodriver", inst.err)]
       ELSE inst

FirefoxFaults == {"none", "latest transport", "latest status", "mktemp", "download transport",
                  "download status", "download no content", "download create",
                  "download write", "archive nested",
                  "archive slip", "extract io", "usrlocal", "usrlocal, no home", "mkdir bin", "copy create", "copy write",
                  "copy sync", "chmod"}

\* ------------------------------------------------------------------------
\* owl setup: the WebKit driver
\* ------------------------------------------------------------------------
installWebkitDriver(fault) ==
    IF goos # "darwin" THEN StepResult(Nil, <<>>, files, NoPath, FALSE)
    ELSE IF fault = "no safaridriver"
    THEN StepResult(<<"safaridriver not found">>, <<>>, files, NoPath, FALSE)
    ELSE IF fault = "enable: administrator privileges"
    THEN [StepResult(Nil, <<>>, files, NoPath, FALSE) EXCEPT !.enableFailed = TRUE]
    ELSE IF fault = "enable"
    THEN [StepResult(<<"failed to enable Safari WebDriver">>, <<>>, files, NoPath, FALSE)
             EXCEPT !.enableFailed = TRUE]
    ELSE StepResult(Nil, <<>>, files, NoPath, FALSE)

WebkitFaults == {"none", "no safaridriver", "enable: administrator privileges", "enable"}

\* ------------------------------------------------------------------------
\* owl setup: Run and setup
\* ------------------------------------------------------------------------
Families == {"chrome", "firefox", "webkit"}

NotRun == [done |-> FALSE, err |-> Nil, reqs |-> <<>>, path |-> NoPath, had |-> FALSE,
           wrote |-> FALSE, enableFailed |-> FALSE]

\* what an install step did, as the claims read it
Summary(r) ==
    [done |-> TRUE, err |-> r.err, reqs |-> r.reqs, path |-> r.path, had |-> r.had,
     wrote |-> r.files # files, enableFailed |-> r.enableFailed]

Platforms == {<<"linux", "amd64">>, <<"darwin", "arm64">>, <<"windows", "amd64">>}

ChromeVersions == {<<>>, <<120, 0, 6099, 109>>, <<119, 0, 1>>, <<7>>}

SearchPaths(os) ==
    IF os = "windows" THEN {<<>>, <<"%USERPROFILE%/bin">>}
    ELSE {<<"/usr/bin">>, <<"/usr/local/bin", "/usr/bin">>}

\* where a driver may already be when the command first runs, and which
SystemDir(os) == IF os = "windows" THEN "%USERPROFILE%/bin" ELSE "/usr/bin"

OldChromeDriver == <<"1", "1", "9", ".", "0", ".", "1", ".", "2">>

OldGeckoDriver == <<"0", ".", "3", "2", ".", "0">>

InitialDrivers(os) ==
    { [p \in InstallPaths |->
          IF p.dir = SystemDir(os) /\ p.name \in {ChromeDriverName, ChromeDriverName \o ExeSuffix}
          THEN c
          ELSE IF p.dir = SystemDir(os) /\ p.name \in {GeckoDriverName, GeckoDriverName \o ExeSuffix}
          THEN g
          ELSE NoFile] :
        c \in {NoFile, DriverFile(OldChromeDriver)},
        g \in {NoFile, DriverFile(OldGeckoDriver), DriverFile(Tail(GeckoTagName))} }

\* no install was called by itself
NoInstall ==
    [family |-> "none", fault |-> "none", before |-> NoFile, r |-> NotRun, scratch |-> {},
     left |-> {}]

ProcessStart ==
    /\ inLast = NoInstall
    /\ args = <<>>
    /\ pc = "start"
    /\ attempts = <<>>
    /\ setupErrors = <<>>
    /\ results = [f \in Families |-> NotRun]
    /\ setupReturn = -1
    /\ exitCode = -1

InitSetup ==
    /\ \E pl \in Platforms : goos = pl[1] /\ goarch = pl[2]
    /\ chromeVersion \in ChromeVersions
    /\ firefoxInstalled \in BOOLEAN
    /\ searchPath \in SearchPaths(goos)
    /\ files \in InitialDrivers(goos)
    /\ run = 1
    /\ prevOK = {}
    /\ ProcessStart
    /\ SessionIdle
    /\ ExtractIdle
    /\ installs = NoInstalls

ArgLists == {<<>>, <<"setup">>, <<"help">>}

\* Run without a command: usage, exit 1
RunUsage ==
    /\ pc = "start"
    /\ args' = <<>>
    /\ pc' = "exited"
    /\ exitCode' = 1
    /\ UNCHANGED <<envVars, files, run, attempts, setupErrors, results, prevOK, setupReturn, inLast>>

\* Run with an unknown command: exit 1
RunUnknown(a) ==
    /\ pc = "start"
    /\ a # <<>> /\ a[1] # "setup"
    /\ args' = a
    /\ pc' = "exited"
    /\ exitCode' = 1
    /\ UNCHANGED <<envVars, files, run, attempts, setupErrors, results, prevOK, setupReturn, inLast>>

\* Run with setup: setup begins
RunSetup(a) ==
    /\ pc = "start"
    /\ a # <<>> /\ a[1] = "setup"
    /\ args' = a
    /\ pc' = "chrome"
    /\ UNCHANGED <<envVars, files, run, attempts, setupErrors, results, prevOK, setupReturn,
                   exitCode, inLast>>

appendSetupError(errs, label, err) ==
    IF err # Nil THEN Append(errs, [family |-> label, cause |-> err]) ELSE errs

\* the step setup calls after the Chrome driver's
afterChromeFailFast(err) == IF err # Nil THEN "report" ELSE "firefox"

afterChrome(err) == "firefox"

SetupStep(family, label, r, next) ==
    /\ files' = r.files
    /\ attempts' = Append(attempts, family)
    /\ setupErrors' = appendSetupError(setupErrors, label, r.err)
    /\ results' = [results EXCEPT ![family] = Summary(r)]
    /\ pc' = next
    /\ UNCHANGED <<envVars, args, run, prevOK, setupReturn, exitCode, inLast>>

SetupChrome ==
    /\ pc = "chrome"
    /\ \E fault \in ChromeFaults :
          LET r == installChromeDriver(fault)
          IN SetupStep("chrome", "Chrome driver", r, afterChrome(r.err))

SetupFirefox ==
    /\ pc = "firefox"
    /\ \E fault \in FirefoxFaults :
          SetupStep("firefox", "Firefox driver", installFirefoxDriver(fault), "webkit")

SetupWebkit ==
    /\ pc = "webkit"
    /\ \E fault \in WebkitFaults :
          SetupStep("webkit", "Webkit driver", installWebkitDriver(fault), "report")

\* setup's return value
setupResult(errs) == Len(errs)

\* Run's exit code for what setup returned
exitCodeFor(ret) == IF ret # 0 THEN 1 ELSE 0

\* setup reports and returns; Run exits
SetupReturn ==
    /\ pc = "report"
    /\ setupReturn' = setupResult(setupErrors)
    /\ exitCode' = exitCodeFor(setupResult(setupErrors))
    /\ pc' = "exited"
    /\ UNCHANGED <<envVars, files, args, run, attempts, setupErrors, results, prevOK, inLast>>

\* the command is run again on the same machine, after a run that exited 0
RunAgain ==
    /\ pc = "exited"
    /\ exitCode = 0
    /\ run < MaxRuns
    /\ run' = run + 1
    /\ prevOK' = { f \in Families : results[f].done /\ results[f].err = Nil }
    /\ args' = <<>>
    /\ pc' = "start"
    /\ attempts' = <<>>
    /\ setupErrors' = <<>>
    /\ results' = [f \in Families |-> NotRun]
    /\ setupReturn' = -1
    /\ exitCode' = -1
    /\ UNCHANGED <<envVars, files, inLast>>

NextSetup ==
    \/ RunUsage /\ UNCHANGED <<exVars, seVars, installs>>
    \/ \E a \in ArgLists : RunUnknown(a) /\ UNCHANGED <<exVars, seVars, installs>>
    \/ \E a \in ArgLists : RunSetup(a) /\ UNCHANGED <<exVars, seVars, installs>>
    \/ SetupChrome /\ UNCHANGED <<exVars, seVars, installs>>
    \/ SetupFirefox /\ UNCHANGED <<exVars, seVars, installs>>
    \/ SetupWebkit /\ UNCHANGED <<exVars, seVars, installs>>
    \/ SetupReturn /\ UNCHANGED <<exVars, seVars, installs>>

Spec == InitSetup /\ [][NextSetup]_vars

NextRerun ==
    \/ NextSetup
    \/ RunAgain /\ UNCHANGED <<exVars, seVars, installs>>

SpecRerun == InitSetup /\ [][NextRerun]_vars

\* ------------------------------------------------------------------------
\* the archives and scratch directories of the extraction specification
\* ------------------------------------------------------------------------
EntrySet ==
    { [name |-> <<"a">>, typ |-> "reg"],
      [name |-> <<"a", "/", "b">>, typ |-> "reg"],
      [name |-> <<".", ".", "/", "e">>, typ |-> "reg"],
      [name |-> <<"a", "/", ".", ".", "/", ".", ".", "/", "e">>, typ |-> "reg"],
      [name |-> <<"/", "e">>, typ |-> "reg"],
      [name |-> <<".", ".", "/", "c", "2">>, typ |-> "reg"],
      [name |-> <<>>, typ |-> "reg"],
      [name |-> <<"d", "/">>, typ |-> "dir"],
      [name |-> <<".", ".", "/", "d">>, typ |-> "dir"],
      [name |-> <<".">>, typ |-> "dir"],
      [name |-> <<"l">>, typ |-> "link"],
      [name |-> <<".", ".", "/", "l">>, typ |-> "link"] }

Archives == UNION { [1..n -> EntrySet] : n \in 0..MaxEntries }

\* os.TempDir(): $TMPDIR, absolute or not
TempDirs == { <<"/", "t">>, <<"/">>, <<".", ".">>, <<"t", "/", ".">> }

ScratchDirs == { mkdirTempName(d, <<"c">>) : d \in TempDirs }

ZipFaults == {[at |-> 0, op |-> "none"]} \cup [at : 1..MaxEntries, op : {"mkdir", "open", "copy"}]

TarFaults == {[at |-> 0, op |-> "none"]}
                 \cup [at : 1..MaxEntries, op : {"next", "mkdir", "open", "copy"}]

InstallerIdle ==
    /\ goos = "linux"
    /\ goarch = "amd64"
    /\ chromeVersion = <<>>
    /\ firefoxInstalled = FALSE
    /\ searchPath = <<>>
    /\ files = [p \in InstallPaths |-> NoFile]
    /\ run = 1
    /\ prevOK = {}
    /\ ProcessStart

InitExtract ==
    /\ exFormat \in {"zip", "tar.gz"}
    /\ exEntries \in Archives
    /\ exDest \in ScratchDirs
    /\ exFault \in (IF exFormat = "zip" THEN ZipFaults ELSE TarFaults)
    /\ exFault.at <= Len(exEntries)
    /\ exResult = NotExtracted
    /\ SessionIdle
    /\ InstallerIdle
    /\ installs = NoInstalls

ExtractZip ==
    /\ exFormat = "zip"
    /\ ~exResult.done
    /\ exResult' = extractZip(exEntries, exDest, exFault, 1, {})
    /\ UNCHANGED <<exFormat, exEntries, exDest, exFault>>
    /\ UNCHANGED <<seVars, inVars, installs>>

ExtractTarGz ==
    /\ exFormat = "tar.gz"
    /\ ~exResult.done
    /\ exResult' = extractTarGz(exEntries, exDest, exFault, 1, {})
    /\ UNCHANGED <<exFormat, exEntries, exDest, exFault>>
    /\ UNCHANGED <<seVars, inVars, installs>>

NextExtract == ExtractZip \/ ExtractTarGz

SpecExtract == InitExtract /\ [][NextExtract]_vars

\* ------------------------------------------------------------------------
\* C1
\* ------------------------------------------------------------------------

\* where the operating system resolves a path, from the working directory
WorkingDir == << <<"w">>, <<"x">> >>

RECURSIVE resolveElems(_, _)
resolveElems(elems, at) ==
    IF elems = <<>> THEN at
    ELSE IF Head(elems) = <<".">> THEN resolveElems(Tail(elems), at)
    ELSE IF Head(elems) = <<".", ".">>
         THEN resolveElems(Tail(elems), IF at = <<>> THEN at ELSE SubSeq(at, 1, Len(at) - 1))
         ELSE resolveElems(Tail(elems), Append(at, Head(elems)))

Resolved(path) ==
    resolveElems(pathElems(path, <<>>, <<>>),
                 IF path # <<>> /\ Head(path) = Sep THEN <<>> ELSE WorkingDir)

StrictlyInside(path, root) ==
    LET p == Resolved(path)
        r == Resolved(root)
    IN Len(r) < Len(p) /\ SubSeq(p, 1, Len(r)) = r

EscapingEntries ==
    { i \in 1..Len(exEntries) :
        ~StrictlyInside(exDest \o <<Sep>> \o exEntries[i].name, exDest) }

FirstEscaping == CHOOSE i \in EscapingEntries : \A j \in EscapingEntries : i <= j

\* C1: extractZip and extractTarGz write nothing outside the destination
\* directory, and at the first entry whose joined path is not strictly inside
\* it they return an error without processing any later entry.
C1_TraversalSafety ==
    exResult.done =>
        /\ \A p \in exResult.written :
              StrictlyInside(p, exDest) \/ Resolved(p) = Resolved(exDest)
        /\ EscapingEntries # {} =>
              /\ exResult.err # "nil"
              /\ exResult.processed <= FirstEscaping

\* the first entry escapes, and the entry after it, which would have been
\* written, is not processed
C1_Witness ==
    /\ exResult.done
    /\ exResult.err = "illegal file path"
    /\ exResult.processed < Len(exEntries)
    /\ StrictlyInside(exDest \o <<Sep>> \o exEntries[Len(exEntries)].name, exDest)
    /\ exResult.written = {}

\* ------------------------------------------------------------------------
\* the browser specification
\* ------------------------------------------------------------------------
InitSession ==
    /\ gbLast = NoGetBrowser
    /\ kind \in [Browsers -> {"firefox", "webkit"}]
    /\ cmd = [i \in Browsers |-> NoCmd]
    /\ sessionID = [i \in Browsers |-> ""]
    /\ procs = {}
    /\ listener = 0
    /\ nextPid = 1
    /\ seAnswered = [i \in Browsers |-> NoAnswer]
    /\ seCreated = [i \in Browsers |-> FALSE]
    /\ seLast = NoCall
    /\ ExtractIdle
    /\ InstallerIdle
    /\ installs = NoInstalls

NextSession ==
    \/ \E i \in Browsers : Launch(i) /\ UNCHANGED <<exVars, inVars, gbLast, installs>>
    \/ \E i \in Browsers, u \in Urls, resp \in NavResponses :
           /\ resp.ok => listener # 0
           /\ OpenURL(i, u, resp)
           /\ UNCHANGED <<exVars, inVars, gbLast, installs>>
    \/ \E i \in Browsers : Close(i) /\ UNCHANGED <<exVars, inVars, gbLast, installs>>

SpecSession == InitSession /\ [][NextSession]_vars

\* C2: OpenURL on a Firefox or WebKit instance whose session creation never
\* completed (no Launch has returned nil) returns an error and issues no HTTP
\* request.
C2_FailFastEmptySession ==
    (seLast.op = "OpenURL" /\ ~seCreated[seLast.inst]) =>
        /\ seLast.err # "nil"
        /\ seLast.reqs = <<>>

\* a failed Launch came first, then OpenURL
C2_Witness ==
    /\ seLast.op = "OpenURL"
    /\ ~seCreated[seLast.inst]
    /\ cmd[seLast.inst].set
    /\ cmd[seLast.inst].pid # 0
    /\ seLast.err = "no active session"

\* C3: after the driver answered POST /session with sessionId S, Launch has
\* stored exactly S, and every later OpenURL(u) issues exactly one POST to
\* /session/S/url with body {"url":u}, succeeding iff the status is 200.
C3_SessionRoundTrip ==
    /\ (seLast.op = "Launch" /\ seLast.err = "nil") =>
           /\ seLast.answer # NoAnswer
           /\ sessionID[seLast.inst] = seLast.answer
    /\ (seLast.op = "OpenURL" /\ seAnswered[seLast.inst] # NoAnswer) =>
           /\ seLast.reqs = <<Request("POST",
                                      <<"http://localhost:4444/session/",
                                        seAnswered[seLast.inst], "/url">>,
                                      [url |-> seLast.url])>>
           /\ (seLast.err = "nil") <=> (seLast.status = 200)

\* ------------------------------------------------------------------------
\* owl setup: what the claims read off a run
\* ------------------------------------------------------------------------
SetupOrder == <<"chrome", "firefox", "webkit">>

FamilyLabel(f) ==
    IF f = "chrome" THEN "Chrome driver"
    ELSE IF f = "firefox" THEN "Firefox driver"
    ELSE "Webkit driver"

RanSetup == args # <<>> /\ args[1] = "setup"

Failed(f) == results[f].done /\ results[f].err # Nil

FailedFamilies == { f \in Families : Failed(f) }

RECURSIVE ExpectedReport(_)
\* one entry per failed family among the first n of the order, in that order
ExpectedReport(n) ==
    IF n = 0 THEN <<>>
    ELSE LET f == SetupOrder[n]
         IN IF Failed(f)
            THEN Append(ExpectedReport(n - 1),
                        [family |-> FamilyLabel(f), cause |-> results[f].err])
            ELSE ExpectedReport(n - 1)

\* the URL names a driver archive, not a registry query
isArchiveURL(url) ==
    \/ url[1] = ChromeStorage /\ Len(url) = 5
    \/ url[1] = "https://github.com/mozilla/geckodriver/releases/download/v"

Downloaded(f) == \E i \in 1..Len(results[f].reqs) : isArchiveURL(results[f].reqs[i].url)

\* C4: setup attempts the Chrome, the Firefox and the WebKit driver install
\* once each, in that order, whatever the earlier ones returned; the report
\* holds one entry per family whose step returned an error, with that error
\* as its cause, and setup returns an error counting exactly those families
\* (nil, count 0, when none failed).
C4_AggregatedReporting ==
    /\ Len(attempts) <= 3
    /\ attempts = SubSeq(SetupOrder, 1, Len(attempts))
    /\ (RanSetup /\ pc \in {"report", "exited"}) =>
          /\ attempts = SetupOrder
          /\ \A f \in Families : results[f].done
          /\ setupErrors = ExpectedReport(3)
    /\ (RanSetup /\ pc = "exited") => setupReturn = Cardinality(FailedFamilies)

\* the Chrome step succeeded, the Firefox step failed, the WebKit step was
\* still attempted, and the report holds the Firefox failure alone
C4_Witness ==
    /\ RanSetup /\ pc = "exited"
    /\ ~Failed("chrome") /\ Failed("firefox") /\ results["webkit"].done
    /\ setupErrors = <<[family |-> "Firefox driver", cause |-> results["firefox"].err]>>
    /\ setupReturn = 1

\* C5: the setup command exits 0 only when all three families succeeded and
\* exits non-zero whenever a family's step failed, a failing
\* `safaridriver --enable` included.
C5_ExitCode ==
    (RanSetup /\ pc = "exited") =>
        (exitCode = 0 <=> \A f \in Families : ~Failed(f) /\ ~results[f].enableFailed)

\* C6: when setup runs again after a run in which the Chrome and the Firefox
\* step succeeded, with the same browser and the same registry answers, the
\* second run's step downloads no archive and leaves the install path alone.
C6_Idempotence ==
    \A f \in {"chrome", "firefox"} :
        (run = 2 /\ f \in prevOK /\ results[f].done /\ results[f].err = Nil) =>
            ~Downloaded(f) /\ ~results[f].wrote

\* C7: when a driver binary is already at the computed install path, the
\* family's step returns success and issues no network request at all.
C7_SkipFastPath ==
    \A f \in {"chrome", "firefox"} :
        (run = 1 /\ results[f].done /\ results[f].had
            /\ (f = "chrome" => Len(chromeVersion) >= 3)) =>
            results[f].err = Nil /\ results[f].reqs = <<>>

\* the registry query scoped to the installed Chrome's major version
ScopedQuery == GET(<<ChromeStorage, "LATEST_RELEASE_", itoa(chromeVersion[1])>>)

\* the archive of the driver version the registry names for that major version
ScopedDownload ==
    GET(<<ChromeStorage, TrimSpace(chromeLatestReleaseFor(itoa(chromeVersion[1]))),
          "/chromedriver_", chromePlatform, ".zip">>)

\* the failures that come before the scoped query is issued
BeforeScopedQuery ==
    {<<"failed to get latest Chrome driver version", "transport">>,
     <<"failed to get latest Chrome driver version", "unexpected status code">>,
     <<"failed to create bin directory">>}

\* C8: with Chrome M.x.y.z installed and no driver file at the install path,
\* installChromeDriver asks the registry for the release of major version M
\* and downloads the driver version it names and no other; when it returns
\* success a whole file is at the resolved install path, executable on POSIX.
C8_VersionScopedInstall ==
    LET r == results["chrome"] IN
    (run = 1 /\ r.done /\ Len(chromeVersion) >= 3 /\ ~r.had) =>
        /\ r.err \notin BeforeScopedQuery => (Len(r.reqs) >= 2 /\ r.reqs[2] = ScopedQuery)
        /\ \A i \in 1..Len(r.reqs) :
              /\ i >= 2 => r.reqs[i] \in {ScopedQuery, ScopedDownload}
              /\ isArchiveURL(r.reqs[i].url) => r.reqs[i] = ScopedDownload
        /\ r.err = Nil =>
              /\ r.reqs[Len(r.reqs)] = ScopedDownload
              /\ r.path \in InstallPaths
              /\ files[r.path].exists /\ files[r.path].whole
              /\ files[r.path].ver = TrimSpace(chromeLatestReleaseFor(itoa(chromeVersion[1])))
              /\ goos # "windows" => files[r.path].exec

\* Chrome 120.0.6099.109 with no driver anywhere: the step queried for major
\* version 120, downloaded, and returned success
C8_Witness ==
    LET r == results["chrome"] IN
    /\ r.done /\ ~r.had /\ r.err = Nil
    /\ chromeVersion = <<120, 0, 6099, 109>>
    /\ goos = "linux"
    /\ Len(r.reqs) = 3 /\ r.reqs[2] = ScopedQuery
    /\ files[r.path].exec

\* the leading digits of a version
leadingDigits(v) == SubSeq(v, 1, digitsEnd(v, 1) - 1)

\* C9: whenever installChromeDriver returns success, the driver at the install
\* path has the installed Chrome's major version, also when a driver of
\* another major version was there before the call.
C9_MajorVersionEquality ==
    LET r == results["chrome"] IN
    (run = 1 /\ r.done /\ r.err = Nil) =>
        /\ r.path \in InstallPaths
        /\ files[r.path].exists
        /\ leadingDigits(files[r.path].ver) = itoa(chromeVersion[1])

\* the family's browser is on the machine
BrowserInstalled(f) ==
    IF f = "chrome" THEN chromeVersion # <<>>
    ELSE IF f = "firefox" THEN firefoxInstalled
    ELSE goos = "darwin"

\* C10: for every family, when its browser is not installed the step fails
\* with a browser-missing error, downloads no driver and writes nothing to
\* the install path.
C10_BrowserMissing ==
    \A f \in Families :
        (run = 1 /\ results[f].done /\ ~BrowserInstalled(f)) =>
            /\ results[f].err # Nil
            /\ ~Downloaded(f)
            /\ ~results[f].wrote

\* ------------------------------------------------------------------------
\* Browser instances: the session's life
\* ------------------------------------------------------------------------

\* C11: OpenURL is accepted only while the instance is active: an OpenURL that
\* follows a Close of the same instance returns an error and sends nothing to
\* the driver.
C11_NoOpenURLAfterClose ==
    [][(seLast.op = "Close" /\ seLast'.op = "OpenURL" /\ seLast'.inst = seLast.inst) =>
          (seLast'.err # "nil" /\ seLast'.reqs = <<>>)]_vars

\* C12: Close is idempotent: a Close that finds no running process of the
\* instance (never launched, or closed before) returns nil and calls
\* Process.Kill on nothing.
C12_CloseIdempotent ==
    (seLast.op = "Close" /\ ~(seLast.kill # 0 /\ seLast.live)) =>
        (seLast.err = "nil" /\ seLast.kill = 0)

\* C13: a Launch on an instance whose driver process is still running is
\* rejected with an error and starts no second process.
C13_NoSecondLaunch ==
    [][(seLast'.op = "Launch" /\ cmd[seLast'.inst].pid \in procs) =>
          (seLast'.err # "nil" /\ procs' = procs)]_vars

\* the errors createSession has for a response that lacks the session
InvalidSessionResponse ==
    {"invalid session response format",
     "invalid session response format: sessionId not found"}

\* C14: when the driver answers POST /session with a JSON object in which
\* `value` is missing or not an object, or `sessionId` is missing or not a
\* string, createSession returns an invalid-session-response error and does
\* not panic, and Launch returns an error with the session id left empty.
C14_MalformedSessionResponse ==
    LET b == seLast.body IN
    (/\ seLast.op = "Launch"
     /\ ~seCreated[seLast.inst]
     /\ b.decodes
     /\ (b.value # "object" \/ b.idType # "string")) =>
        /\ seLast.err \in InvalidSessionResponse
        /\ sessionID[seLast.inst] = ""

\* C15: once a Launch has returned nil on an instance, its stored session id
\* is a non-empty string, whatever the driver answered.
C15_SessionIdNonEmpty ==
    \A i \in Browsers : seCreated[i] => sessionID[i] # ""

\* ------------------------------------------------------------------------
\* the browser selection specification
\* ------------------------------------------------------------------------
NextGetBrowser ==
    \/ GetBrowserConfigFatal /\ UNCHANGED <<exVars, inVars, installs>>
    \/ \E t \in BrowserTypes : GetBrowserUnsupported(t) /\ UNCHANGED <<exVars, inVars, installs>>
    \/ \E t \in BrowserTypes : GetBrowserChrome(t) /\ UNCHANGED <<exVars, inVars, installs>>
    \/ \E t \in BrowserTypes : GetBrowserDriver(t) /\ UNCHANGED <<exVars, inVars, installs>>

SpecGetBrowser == InitSession /\ [][NextGetBrowser]_vars

\* C16: what GetBrowser returns is decided by the configured browser type
\* alone: for "chrome", "firefox" and "webkit" it launches that variant and
\* returns it when its Launch returned nil (nil and the Launch's error
\* otherwise); for every other value it returns a nil Browser and an error,
\* launches nothing and does not panic.
C16_GetBrowserSelection ==
    [][LET g == gbLast'
           known == g.browserType \in {"chrome", "firefox", "webkit"}
       IN (g.called /\ ~g.fatal) =>
           /\ known =>
                 /\ g.launched = g.browserType
                 /\ g.browser \in {g.browserType, "nil"}
                 /\ g.browser = g.browserType <=> (g.err = "nil" /\ ~g.panicked)
                 /\ (g.browser \in {"firefox", "webkit"}) =>
                       /\ kind'[g.inst] = g.browserType
                       /\ seLast'.op = "Launch" /\ seLast'.inst = g.inst
                       /\ seLast'.err = "nil"
                       /\ cmd'[g.inst].pid \in procs' \ procs
           /\ ~known =>
                 /\ g.browser = "nil"
                 /\ g.err # "nil"
                 /\ g.launched = "none"
                 /\ ~g.panicked
                 /\ UNCHANGED <<kind, cmd, sessionID, procs, listener, nextPid, seLast>>]_vars

\* an unsupported type after a first browser was launched: an error, and the
\* running driver is the first call's alone
C16_Witness ==
    /\ gbLast.called /\ gbLast.browserType = "edge"
    /\ gbLast.browser = "nil" /\ gbLast.err = "Unsupported browser type"
    /\ Cardinality(procs) = 1

\* the family's driver was provisioned: by its install step, or, for WebKit,
\* by the `safaridriver --enable` that Launch itself runs first
Provisioned(f) ==
    \/ results[f].done /\ results[f].err = Nil
    \/ f = "webkit" /\ seLast.op = "Launch"
                    /\ seLast.err # "failed to enable Safari WebDriver"

\* C17: for the Firefox and WebKit variants the family's driver provisioning
\* has completed successfully before the driver process is spawned; when it
\* has not, no process is spawned.
C17_ProvisionBeforeSpawn ==
    (/\ gbLast.called
     /\ gbLast.launched \in {"firefox", "webkit"}
     /\ cmd[gbLast.inst].pid # 0) =>
        Provisioned(gbLast.launched)

\* C18: two launched instances are independent: the session a Launch creates
\* on an instance that had no running process is served by the process that
\* Launch spawned, and a Close on one instance
\* does not take away the driver that serves another instance whose own
\* process is running.
C18_InstancesIndependent ==
    [][/\ (/\ seLast'.op = "Launch" /\ seLast'.err = "nil"
           /\ cmd[seLast'.inst].pid \notin procs) =>
              listener' = cmd'[seLast'.inst].pid
       /\ seLast'.op = "Close" =>
              \A j \in Browsers \ {seLast'.inst} :
                  (seCreated[j] /\ cmd[j].pid \in procs /\ listener # 0) => listener' # 0]_vars

\* ------------------------------------------------------------------------
\* one family's install, called by itself
\* ------------------------------------------------------------------------
InstallCall(family, fault, r) ==
    /\ pc = "start"
    /\ inLast.family = "none"
    /\ inLast' = [family |-> family, fault |-> fault,
                  before |-> IF r.path = NoPath THEN NoFile ELSE files[r.path],
                  r |-> Summary(r), scratch |-> r.scratch, left |-> r.left]
    /\ files' = r.files
    /\ UNCHANGED <<envVars, args, pc, run, attempts, setupErrors, results, prevOK,
                   setupReturn, exitCode>>

InstallChrome == \E fault \in ChromeFaults : InstallCall("chrome", fault, installChromeDriver(fault))

InstallFirefox ==
    \E fault \in FirefoxFaults : InstallCall("firefox", fault, installFirefoxDriver(fault))

NextInstall ==
    \/ InstallChrome /\ UNCHANGED <<exVars, seVars, installs>>
    \/ InstallFirefox /\ UNCHANGED <<exVars, seVars, installs>>

SpecInstall == InitSetup /\ [][NextInstall]_vars

\* the install step a fault of the environment strikes; "other" for the
\* operations between the steps
faultStep(fault) ==
    IF fault \in {"latest transport", "latest status", "scoped transport", "scoped status"}
    THEN "lookup"
    ELSE IF fault \in {"download transport", "download status", "download no content",
                       "download create", "download write"}
    THEN "download"
    ELSE IF fault \in {"archive slip", "extract io"} THEN "extract"
    ELSE IF fault \in {"archive nested", "copy create", "copy write", "copy sync"} THEN "copy"
    ELSE IF fault = "chmod" THEN "chmod"
    ELSE "other"

\* the error the failing operation itself returned
faultCause(fault) ==
    IF fault \in {"latest transport", "scoped transport", "download transport"} THEN "transport"
    ELSE IF fault = "latest status" THEN "unexpected status code"
    ELSE IF fault = "scoped status" THEN "failed to get ChromeDriver version: status"
    ELSE IF fault \in {"download status", "download no content"}
    THEN "download failed with status"
    ELSE IF fault \in {"download create", "copy create"} THEN "create"
    ELSE IF fault \in {"download write", "copy write"} THEN "write"
    ELSE IF fault = "archive slip" THEN "illegal file path"
    ELSE IF fault = "extract io" THEN "copy"
    ELSE IF fault = "archive nested" THEN "open: no such file"
    ELSE IF fault = "copy sync" THEN "sync"
    ELSE "failed to make driver executable"

\* the context the caller of the failing step adds, "" when it returns the
\* error as it is
stepContext(family, fault) ==
    IF fault \in {"latest transport", "latest status"}
    THEN (IF family = "chrome" THEN "failed to get latest Chrome driver version"
          ELSE "failed to get latest Geckodriver version")
    ELSE IF faultStep(fault) = "download" THEN "download failed"
    ELSE IF faultStep(fault) = "extract" THEN "extraction failed"
    ELSE IF faultStep(fault) = "copy" THEN "failed to install driver"
    ELSE IF faultStep(fault) = "chmod" THEN "failed to make driver executable"
    ELSE ""

InChain(msg, err) == \E k \in 1..Len(err) : err[k] = msg

\* the requests of the latest install that fetch an archive
ArchiveRequests(reqs) == { k \in 1..Len(reqs) : isArchiveURL(reqs[k].url) }

\* the faulty operation was reached: the step before it left its trace
FaultReached(family, fault, r) ==
    IF fault \in {"latest transport", "latest status"} THEN r.reqs # <<>>
    ELSE IF fault \in {"scoped transport", "scoped status"} THEN Len(r.reqs) >= 2
    ELSE IF faultStep(fault) = "chmod" THEN ArchiveRequests(r.reqs) # {} /\ goos # "windows"
    ELSE IF faultStep(fault) = "other" THEN FALSE
    ELSE ArchiveRequests(r.reqs) # {}

\* C19: within one family's install the steps version lookup, download,
\* extraction, copy to the install path and chmod run in that order and are
\* fail-fast: when the environment fails a step that was reached, the install
\* returns an error that carries that step's error (under the step's context
\* message), every earlier step has run and no later step has.
C19_FailFastInstall ==
    LET r == inLast.r
        fault == inLast.fault
        step == faultStep(fault)
        now == IF r.path = NoPath THEN NoFile ELSE files[r.path]
    IN (inLast.family # "none") =>
        /\ \A k \in ArchiveRequests(r.reqs) : k = Len(r.reqs) /\ k >= 2
        /\ r.wrote => ArchiveRequests(r.reqs) # {}
        /\ FaultReached(inLast.family, fault, r) =>
              /\ r.err # Nil
              /\ r.err[Len(r.err)] = faultCause(fault)
              /\ stepContext(inLast.family, fault) # "" =>
                    InChain(stepContext(inLast.family, fault), r.err)
              /\ step = "lookup" => (ArchiveRequests(r.reqs) = {} /\ ~r.wrote)
              /\ step \in {"download", "extract"} => ~r.wrote
              /\ step = "copy" => now.exec = (inLast.before.exists /\ inLast.before.exec)
              /\ step = "chmod" => (now.whole /\ now.exec = inLast.before.exec)
        /\ (r.err = Nil /\ ArchiveRequests(r.reqs) # {}) =>
              (now.whole /\ (goos # "windows" => now.exec))

\* the copy failed midway: the download was made, the error carries the
\* write error under "failed to install driver", and no chmod followed
C19_Witness ==
    /\ inLast.family = "firefox" /\ inLast.fault = "copy write"
    /\ InChain("failed to install driver", inLast.r.err)
    /\ inLast.r.err[Len(inLast.r.err)] = "write"
    /\ ArchiveRequests(inLast.r.reqs) # {}
    /\ ~files[inLast.r.path].exec

\* C20: installation into the final path is atomic: in every reachable state
\* the file at an install path is absent or a complete driver (the previous
\* one or the new one), never an empty or partly written file.
C20_AtomicInstall ==
    \A p \in InstallPaths : files[p].exists => files[p].whole

\* ------------------------------------------------------------------------
\* owl setup: where a driver is installed
\* ------------------------------------------------------------------------
execNameOf(family) == IF family = "chrome" THEN chromeExecName ELSE geckoExecName

\* the well-known system directories, in the order they are tried
SystemDirs == <<"/usr/local/bin", "/usr/bin">>

\* the place the resolution order gives before the fallback: the driver on
\* the search path, otherwise the first existing copy in a system directory,
\* NoPath when there is neither
PreferredPath(name) ==
    LET inSystem == { k \in 1..Len(SystemDirs) :
                        files[[dir |-> SystemDirs[k], name |-> name]].exists }
    IN IF lookPath(name) # NoPath THEN lookPath(name)
       ELSE IF goos # "windows" /\ inSystem # {}
       THEN [dir |-> SystemDirs[CHOOSE k \in inSystem : \A j \in inSystem : k <= j],
             name |-> name]
       ELSE NoPath

\* C21: for both downloaded families the install path is the location of a
\* driver already on the search path, otherwise an existing copy in a
\* well-known system directory, otherwise a fallback directory; a driver found
\* on the search path is the file that gets replaced.
C21_InstallPathOrder ==
    [][(/\ inLast'.family \in {"chrome", "firefox"}
        /\ inLast'.r.path # NoPath
        /\ PreferredPath(execNameOf(inLast'.family)) # NoPath) =>
            inLast'.r.path = PreferredPath(execNameOf(inLast'.family))]_vars

\* ------------------------------------------------------------------------
\* cmd/owl/owl.go: the command's setup with log.Fatal in its steps
\* ------------------------------------------------------------------------
\* what a step of owl.go's setup did: exit = -1 when it returned, otherwise
\* the exit status it ended the process with (1 log.Fatal, 2 a panic)
owl_Step(exit, fs) == [exit |-> exit, files |-> fs]

\* "Not Installed" when the version command fails, the last field of its
\* output when it has more than one field, "Unknown" otherwise (the
\* FileVersion that PowerShell prints is one field)
owl_getInstalledChromeVersion ==
    IF chromeVersion = <<>> THEN "Not Installed"
    ELSE IF goos = "windows" THEN "Unknown"
    ELSE "version"

owl_updateChrome(fault) ==
    IF goos = "linux" /\ fault = "update" THEN owl_Step(1, files) ELSE owl_Step(-1, files)

\* latest is the content of LATEST_RELEASE
owl_installChromeDriver(fault, latest) ==
    IF fault = "latest version" THEN owl_Step(1, files)
    ELSE IF owl_getInstalledChromeVersion = "Not Installed" THEN owl_Step(1, files)
    ELSE IF owl_getInstalledChromeVersion = "version" /\ chromeVersion = latest
    THEN owl_Step(-1, files)
    ELSE owl_updateChrome(fault)

\* [panic, installed, version]: the second field of the first output line;
\* on Windows the output is the path of the executable, which has a second
\* field only when the path holds a space
owl_getInstalledGeckoDriverVersion(fault) ==
    LET geckoPath == lookPath(geckoExecName) IN
    IF geckoPath = NoPath \/ ~files[geckoPath].whole
    THEN [panic |-> FALSE, installed |-> FALSE, version |-> <<>>]
    ELSE IF goos = "windows"
    THEN [panic |-> fault # "path with space", installed |-> TRUE, version |-> <<"bin">>]
    ELSE [panic |-> FALSE, installed |-> TRUE, version |-> files[geckoPath].ver]

\* sh -c "curl -L url -o /tmp/driver && tar -xzf /tmp/driver -C /usr/local/bin
\* && chmod +x path"; on Windows the archive is expanded into a directory
\* named after the executable, which is no file of the model
owl_downloadAndExtract(fault) ==
    LET dstPath == [dir |-> "/usr/local/bin", name |-> GeckoDriverName]
        extracted == [files EXCEPT ![dstPath] =
                          [exists |-> TRUE, ver |-> Tail(GeckoTagName),
                           exec |-> files[dstPath].exec, whole |-> TRUE]]
    IN IF fault = "download" THEN [err |-> TRUE, files |-> files]
       ELSE IF goos = "windows" THEN [err |-> fault = "extract", files |-> files]
       ELSE IF fault = "extract" THEN [err |-> TRUE, files |-> files]
       ELSE IF fault = "chmod" THEN [err |-> TRUE, files |-> extracted]
       ELSE [err |-> FALSE, files |-> [files EXCEPT ![dstPath] = DriverFile(Tail(GeckoTagName))]]

owl_downloadAndInstallGeckoDriver(fault) ==
    LET dl == owl_downloadAndExtract(fault)
    IN IF dl.err THEN owl_Step(1, dl.files) ELSE owl_Step(-1, dl.files)

\* the latest version is the release's tag_name, v included
owl_installFirefoxDriver(fault) ==
    LET installed == owl_getInstalledGeckoDriverVersion(fault)
    IN IF installed.panic THEN owl_Step(2, files)
       ELSE IF fault = "latest version" THEN owl_Step(1, files)
       ELSE IF installed.installed /\ installed.version = GeckoTagName
       THEN owl_Step(-1, files)
       ELSE owl_downloadAndInstallGeckoDriver(fault)

owl_installWebkitDriver(fault) ==
    IF goos # "darwin" THEN owl_Step(-1, files)
    ELSE IF fault = "enable" THEN owl_Step(1, files)
    ELSE owl_Step(-1, files)

\* one call of setup: the step returns and setup goes on, or the step ends
\* the process
owl_SetupStep(family, r, next) ==
    /\ files' = r.files
    /\ attempts' = Append(attempts, family)
    /\ pc' = IF r.exit = -1 THEN next ELSE "exited"
    /\ exitCode' = r.exit
    /\ UNCHANGED <<envVars, args, run, setupErrors, results, prevOK, setupReturn, inLast>>

owl_SetupChrome ==
    /\ pc = "chrome"
    /\ \E fault \in {"none", "latest version", "update"}, latest \in ChromeVersions \ {<<>>} :
          owl_SetupStep("chrome", owl_installChromeDriver(fault, latest), "firefox")

owl_SetupFirefox ==
    /\ pc = "firefox"
    /\ \E fault \in {"none", "path with space", "latest version", "download",
                       "extract", "chmod"} :
          owl_SetupStep("firefox", owl_installFirefoxDriver(fault), "webkit")

owl_SetupWebkit ==
    /\ pc = "webkit"
    /\ \E fault \in {"none", "enable"} :
          owl_SetupStep("webkit", owl_installWebkitDriver(fault), "report")

\* setup returns to Run, Run to main: the process ends with status 0
owl_SetupReturn ==
    /\ pc = "report"
    /\ setupReturn' = 0
    /\ exitCode' = 0
    /\ pc' = "exited"
    /\ UNCHANGED <<envVars, files, args, run, attempts, setupErrors, results, prevOK, inLast>>

owl_Next ==
    \/ RunUsage /\ UNCHANGED <<exVars, seVars, installs>>
    \/ \E a \in ArgLists : RunUnknown(a) /\ UNCHANGED <<exVars, seVars, installs>>
    \/ \E a \in ArgLists : RunSetup(a) /\ UNCHANGED <<exVars, seVars, installs>>
    \/ owl_SetupChrome /\ UNCHANGED <<exVars, seVars, installs>>
    \/ owl_SetupFirefox /\ UNCHANGED <<exVars, seVars, installs>>
    \/ owl_SetupWebkit /\ UNCHANGED <<exVars, seVars, installs>>
    \/ owl_SetupReturn /\ UNCHANGED <<exVars, seVars, installs>>

SpecOwl == InitSetup /\ [][owl_Next]_vars

\* C22: no driver-provisioning step terminates the process: once the setup
\* command was given, the process has exited only after setup returned to
\* Run, so every failure of a step was handed back to setup.
C22_OnlyRunExits == (RanSetup /\ pc = "exited") => setupReturn # -1

\* ------------------------------------------------------------------------
\* Launch: spawn, then POST /session
\* ------------------------------------------------------------------------
\* C23: Launch sends no HTTP request before the driver process was started:
\* a Launch that sent a request spawned its process in the same call, and the
\* request is the one POST /session; a Launch whose start fails returns the
\* error without any request, spawns nothing and leaves the session id as it
\* was, empty on an instance that had no session.
C23_SpawnBeforeSession ==
    [][seLast'.op = "Launch" =>
          /\ seLast'.reqs # <<>> =>
                /\ seLast'.reqs =
                      <<Request("POST", sessionURL, capabilities(kind[seLast'.inst]))>>
                /\ cmd'[seLast'.inst].pid = nextPid
                /\ nextPid \in procs' \ procs
          /\ seLast'.err = "failed to start driver" =>
                /\ seLast'.reqs = <<>>
                /\ procs' = procs
                /\ sessionID' = sessionID
                /\ ~seCreated[seLast'.inst] => sessionID'[seLast'.inst] = ""]_vars

\* one instance's Launch failed at the start, without a session, and another
\* instance's Launch spawned its driver and got a session
C23_Witness ==
    /\ seLast.op = "Launch"
    /\ seLast.err = "failed to start driver"
    /\ seLast.reqs = <<>>
    /\ sessionID[seLast.inst] = ""
    /\ \E j \in Browsers : sessionID[j] # "" /\ cmd[j].pid \in procs

ArchiveFiles(paths) ==
    { p \in paths : \/ HasSuffix(p, <<".", "z", "i", "p">>)
                    \/ HasSuffix(p, <<".", "t", "a", "r", ".", "g", "z">>) }

\* C25: downloadFile returns an error whenever the connection fails or the
\* status is not 200, and then it has neither created nor truncated its
\* destination; the destination exists only after a response with status 200.
C25_DownloadFile ==
    LET resp == httpGet(inLast.fault)
    IN ArchiveRequests(inLast.r.reqs) # {} /\ inLast.scratch # {} =>
          /\ (resp.err # Nil \/ resp.status # 200) =>
                /\ inLast.r.err # Nil
                /\ InChain("download failed", inLast.r.err)
                /\ inLast.r.err[Len(inLast.r.err)] =
                      (IF resp.err # Nil THEN "transport" ELSE "download failed with status")
                /\ ArchiveFiles(inLast.scratch) = {}
          /\ ArchiveFiles(inLast.scratch) # {} => (resp.err = Nil /\ resp.status = 200)

\* a download answered with a status of the 2xx class other than 200: the
\* install failed and its scratch directory held no archive
C25_Witness ==
    /\ ArchiveRequests(inLast.r.reqs) # {}
    /\ httpGet(inLast.fault).status = 204
    /\ inLast.r.err # Nil
    /\ inLast.scratch # {}
    /\ ArchiveFiles(inLast.scratch) = {}

\* ------------------------------------------------------------------------
\* GetBrowser: a Launch that fails after the spawn
\* ------------------------------------------------------------------------
\* C26: when Launch fails after the driver process was started, no driver
\* process of that instance is left running once GetBrowser has returned the
\* error: the caller holds a nil Browser and cannot Close it.
C26_NoOrphanDriver ==
    (/\ gbLast.called
     /\ gbLast.launched \in {"firefox", "webkit"}
     /\ gbLast.browser = "nil"
     /\ gbLast.err # "nil"
     /\ ~gbLast.panicked) =>
        cmd[gbLast.inst].pid \notin procs

\* ------------------------------------------------------------------------
\* OpenURL: a failed navigation
\* ------------------------------------------------------------------------
\* C27: an OpenURL that fails on an instance with a session, by a transport
\* error or a status other than 200, leaves the instance's session id and its
\* child process handle as they were; every OpenURL is sent to the session the
\* instance holds, so a later one goes to the same session.
C27_FailedOpenURLKeepsSession ==
    [][seLast'.op = "OpenURL" =>
          /\ seLast'.reqs # <<>> =>
                /\ sessionID[seLast'.inst] # ""
                /\ seLast'.reqs[1].url = requestURL(sessionID[seLast'.inst])
          /\ seLast'.err \in {"failed to open URL", "failed to navigate to URL"} =>
                /\ seLast'.reqs # <<>>
                /\ sessionID' = sessionID
                /\ cmd' = cmd
                /\ procs' = procs]_vars

\* a navigation was refused by the driver: the instance still has its session
\* and its running driver process
C27_Witness ==
    /\ seLast.op = "OpenURL"
    /\ seLast.err = "failed to navigate to URL"
    /\ seLast.status # 200
    /\ sessionID[seLast.inst] # ""
    /\ seLast.reqs[1].url = requestURL(sessionID[seLast.inst])
    /\ cmd[seLast.inst].pid \in procs

\* ------------------------------------------------------------------------
\* owl setup: two installs at the same time
\* ------------------------------------------------------------------------
\* the random parts os.MkdirTemp may append to its pattern
TempSuffixes == {<<"1">>, <<"2">>}

\* an os.MkdirTemp that takes a directory that is there already
mkdirTempExisting(pattern, existing) ==
    { mkdirTempName(TempRoot, pattern \o sfx) : sfx \in TempSuffixes }

\* os.MkdirTemp("", pattern): the directories it may create and return; it
\* makes the directory with Mkdir and tries another name when that one exists
mkdirTemp(pattern, existing) ==
    { d \in { mkdirTempName(TempRoot, pattern \o sfx) : sfx \in TempSuffixes } :
         d \notin existing }

tempPattern(family) == IF family = "chrome" THEN ChromeDriverName ELSE GeckoDriverName

archiveName(family) ==
    IF family = "chrome" THEN ChromeDriverName \o <<".", "z", "i", "p">>
    ELSE GeckoDriverName \o archiveExt

Wrote(r, paths) == { [path |-> p, by |-> r] : p \in paths }

\* os.MkdirTemp in downloadAndInstallChromeDriver / downloadAndInstallGeckoDriver
ParMkdirTemp(r, family) ==
    /\ installs.run[r].pc = "start"
    /\ \E d \in mkdirTemp(tempPattern(family), { e.path : e \in installs.fs }) :
          installs' = [installs EXCEPT
                          !.run[r] = [pc |-> "download", family |-> family, temp |-> d],
                          !.fs = @ \cup Wrote(r, {d})]

\* downloadFile(downloadURL, archivePath)
ParDownload(r, fault) ==
    /\ installs.run[r].pc = "download"
    /\ LET me == installs.run[r]
           dl == downloadFile(fault)
           archivePath == filepathJoin(me.temp, archiveName(me.family))
       IN installs' = [installs EXCEPT
                          !.run[r].pc = IF dl.err = Nil THEN "extract" ELSE "return",
                          !.fs = IF dl.created THEN @ \cup Wrote(r, {archivePath}) ELSE @]

\* extractZip / extractTarGz (archivePath, tempDir)
ParExtract(r, fault) ==
    /\ installs.run[r].pc = "extract"
    /\ LET me == installs.run[r]
           name == execNameOf(me.family)
           ex == IF me.family = "chrome" \/ goos = "windows"
                 THEN extractZip(archiveEntries(fault, name), me.temp, extractFault(fault),
                                 1, {})
                 ELSE extractTarGz(archiveEntries(fault, name), me.temp,
                                   extractFault(fault), 1, {})
       IN installs' = [installs EXCEPT
                          !.run[r].pc = IF ex.err = "nil" THEN "install" ELSE "return",
                          !.fs = @ \cup Wrote(r, ex.written)]

\* copyFile(srcDriver, driverPath) and os.Chmod
ParInstall(r) ==
    /\ installs.run[r].pc = "install"
    /\ installs' = [installs EXCEPT
                       !.run[r].pc = "return",
                       !.final[installs.run[r].family] = Append(@, r)]

\* the return: the deferred os.RemoveAll(tempDir)
ParReturn(r) ==
    /\ installs.run[r].pc = "return"
    /\ LET kept == removeAll(installs.run[r].temp, { e.path : e \in installs.fs })
       IN installs' = [installs EXCEPT
                          !.run[r].pc = "done",
                          !.fs = { e \in @ : e.path \in kept }]

InitPar ==
    /\ InitSetup
    /\ chromeVersion = <<>>
    /\ ~firefoxInstalled
    /\ files = [p \in InstallPaths |-> NoFile]

NextPar ==
    \/ \E r \in Runs, family \in {"chrome", "firefox"} :
          ParMkdirTemp(r, family) /\ UNCHANGED <<exVars, seVars, inVars>>
    \/ \E r \in Runs, fault \in {"none", "download status", "download write"} :
          ParDownload(r, fault) /\ UNCHANGED <<exVars, seVars, inVars>>
    \/ \E r \in Runs, fault \in {"none", "archive nested", "archive slip", "extract io"} :
          ParExtract(r, fault) /\ UNCHANGED <<exVars, seVars, inVars>>
    \/ \E r \in Runs : ParInstall(r) /\ UNCHANGED <<exVars, seVars, inVars>>
    \/ \E r \in Runs : ParReturn(r) /\ UNCHANGED <<exVars, seVars, inVars>>

SpecPar == InitPar /\ [][NextPar]_vars

\* the run holds a scratch directory: it was created and not yet removed
Holding(r) == installs.run[r].pc \in {"download", "extract", "install", "return"}

Inside(p, dir) == p = dir \/ HasPrefix(p, dir \o <<Sep>>)

\* C28: two installs that run at the same time never share a scratch
\* directory: each holds a directory of its own, everything a run writes below
\* the scratch root lies in its own directory, no path there is written by two
\* runs, and a run's directory stays in place until that run removes it; only
\* the install path is written by both.
C28_ScratchNotShared ==
    /\ \A a \in Runs, b \in Runs :
          (a # b /\ Holding(a) /\ Holding(b)) =>
              /\ installs.run[a].temp # installs.run[b].temp
              /\ ~Inside(installs.run[a].temp, installs.run[b].temp)
    /\ \A r \in Runs :
          Holding(r) => [path |-> installs.run[r].temp, by |-> r] \in installs.fs
    /\ \A e \in installs.fs :
          /\ Holding(e.by)
          /\ Inside(e.path, installs.run[e.by].temp)
          /\ \A o \in installs.fs : o.path = e.path => o.by = e.by

\* two installs of the same family hold their scratch directories, each with
\* its extracted driver, and both have written the install path
C28_Witness ==
    /\ installs.run["run1"].family = installs.run["run2"].family
    /\ \A r \in Runs :
          /\ installs.run[r].pc = "return"
          /\ \E e \in installs.fs : e.by = r /\ e.path # installs.run[r].temp
    /\ Len(installs.final[installs.run["run1"].family]) = 2

====
